---- MODULE Spec2Model ----
(***************************************************************************)
(* Claim redemption and minting protocol of server/src/routes/api.ts.      *)
(*                                                                         *)
(* The route handlers (POST /api/claim, POST /api/mintTokenBatch,          *)
(* PUT /api/events/:fancyid, GET /api/scan/:address,                       *)
(* GET /metadata/:eventId/:tokenId), the address and signature schemas and *)
(* buildMetadataJson are translated from api.ts.  The helpers they import  *)
(* from ../poap-helper and ../db (verifyClaim, mintToken, mintTokens,      *)
(* getAllTokens, getEvent, updateEvent) and fastify.authenticate are not   *)
(* part of the source tree at hand; they are modelled from sections 3 to 7 *)
(* of the specification.                                                   *)
(***************************************************************************)
EXTENDS Integers, Sequences, FiniteSets, TLC

(***************************************************************************)
(* Bounds of the model.                                                    *)
(***************************************************************************)
NumReq == 4          \* concurrent POST /api/claim requests racing for one claimId
NumReplay == 3       \* POST /api/claim requests for one claimId while the event is updated
NumFull == 2         \* concurrent POST /api/claim requests beside the other routes
MaxBatch == 3        \* longest address list of a POST /api/mintTokenBatch
FullBatch == 1       \* the same, beside the other routes
NumLive == 1         \* POST /api/claim requests under fair scheduling
LiveBatch == 1       \* longest address list under fair scheduling
NumAdmin == 1        \* POST /api/claim requests beside the privileged routes
NumGate == 1         \* POST /api/claim requests behind schema validation
MaxMeta == 2         \* GET /metadata/:eventId/:tokenId calls

(***************************************************************************)
(* Values.                                                                 *)
(***************************************************************************)
Null == "null"
SignerA == "0xAAA"
AddrB == "0xBBB"
AddrC == "0xCCC"
Garbage == "0x000"   \* what recovery yields for a signature over another message

Requests == 1..NumReq

\* sign_by(k, m): the signature of key k over message m
sign_by(k, m) == [by |-> k, msg |-> m]

\* SignatureVerifier (4.1): recovers the signing address when the signature
\* was made over this very message, and some other address otherwise.
recoverSigner(message, signature) ==
  IF signature.msg = message THEN signature.by ELSE Garbage

\* canonical messages: bind(claimId, eventId, claimer) and bind(claimId)
bindProof(claimId, eventId, claimer) == <<claimId, eventId, claimer>>
bindConsent(claimId) == <<claimId>>

mkClaim(cid, eid, who, proofBy, consentBy) ==
  [claimId |-> cid, eventId |-> eid, claimer |-> who,
   proof |-> sign_by(proofBy, bindProof(cid, eid, who)),
   claimerSignature |-> sign_by(consentBy, bindConsent(cid))]

\* request bodies of POST /api/claim that pass the route's schema
ClaimInputs ==
  { mkClaim("c1", 1, AddrB, SignerA, AddrB),     \* valid, event 1
    mkClaim("c2", 1, AddrC, SignerA, AddrC),     \* valid, another claimId
    mkClaim("c1", 1, AddrB, AddrC, AddrB),       \* proof not by the event signer
    mkClaim("c2", 1, AddrC, SignerA, AddrB),     \* consent not by the claimer
    \* proof of claim c1 replayed for another claimer
    [mkClaim("c1", 1, AddrC, SignerA, AddrC) EXCEPT
       !.proof = sign_by(SignerA, bindProof("c1", 1, AddrB))],
    mkClaim("c3", 2, AddrB, SignerA, AddrB) }    \* no such event

\* the bodies that carry claimId c1
RaceInputs == {c \in ClaimInputs : c.claimId = "c1"}

ClaimIds == {"c1", "c2", "c3"}
EventIds == {1}                     \* the events of the EventStore
ClaimEventIds == {1, 2}             \* the eventId values requests carry
Addresses == {SignerA, AddrB, AddrC, Garbage}
Outcomes == {"Success", "Transient", "Permanent"}   \* what the ledger client returns
RetryBudget == 3     \* ledger submission attempts per mint (4.3)
PoolSize == 2        \* workers of one batch, "a small worker pool, e.g. 1-4" (4.3)

NoClaim == [claimId |-> Null]

\* request bodies of PUT /api/events/:fancyid that pass the route's schema
PutBodies ==
  { [signer |-> Null, signer_ip |-> "ip1", event_url |-> "url1", image_url |-> "img1"],
    [signer |-> SignerA, signer_ip |-> Null, event_url |-> "url0", image_url |-> "img0"] }
PutFancyIds == {"devcon6", "nosuch"}

VARIABLES
  events,      \* EventStore: eventId -> event record
  records,     \* the RedemptionRecords
  ledger,      \* successful mints on the ledger: <<eventId, address>> -> count
  req,         \* POST /api/claim requests: position and locals of each handler
  put,         \* the response to the last PUT /api/events/:fancyid
  putReq,      \* that request: the :fancyid it named, whether it was privileged
  batch,       \* the POST /api/mintTokenBatch request: position and locals
  scan,        \* the response to the last GET /api/scan/:address
  meta         \* the GET /metadata/:eventId/:tokenId calls answered so far

vars == <<events, records, ledger, req, put, putReq, batch, scan, meta>>

(***************************************************************************)
(* ClaimAuthorizer (4.2), behind verifyClaim.                              *)
(***************************************************************************)
RedeemedAnyClaim(cid, recs) == recs # {}
Redeemed(cid, recs) == \E x \in recs : x.claimId = cid

\* the five checks, in order, short-circuiting on the first failure
authorizeRedemptionFirst(claim, evs, recs) ==
  IF claim.eventId \notin DOMAIN evs THEN "ValidationError"
  ELSE IF Redeemed(claim.claimId, recs) THEN "AlreadyRedeemed"
  ELSE IF evs[claim.eventId].signer = Null THEN "EventNotActive"
  ELSE IF recoverSigner(bindProof(claim.claimId, claim.eventId, claim.claimer),
                        claim.proof) # evs[claim.eventId].signer
       THEN "InvalidProof"
  ELSE IF recoverSigner(bindConsent(claim.claimId), claim.claimerSignature)
            # claim.claimer
       THEN "InvalidClaimerSignature"
  ELSE "Authorized"
authorize(claim, evs, recs) ==
  IF claim.eventId \notin DOMAIN evs THEN "ValidationError"
  ELSE IF evs[claim.eventId].signer = Null THEN "EventNotActive"
  ELSE IF Redeemed(claim.claimId, recs) THEN "AlreadyRedeemed"
  ELSE IF recoverSigner(bindProof(claim.claimId, claim.eventId, claim.claimer),
                        claim.proof) # evs[claim.eventId].signer
       THEN "InvalidProof"
  ELSE IF recoverSigner(bindConsent(claim.claimId), claim.claimerSignature)
            # claim.claimer
       THEN "InvalidClaimerSignature"
  ELSE "Authorized"

\* the signer the event holds, as verifyClaim reads it
signerOf(eventId, evs) == IF eventId \in DOMAIN evs THEN evs[eventId].signer ELSE Null

\* verifyClaim(claim): authorize and, on success, create the RedemptionRecord
\* in the same atomic check-and-set (5).  The reason of a rejection.
verifyClaim(claim, evs, recs) == authorize(claim, evs, recs)

\* the records after verifyClaim of request r
recordsAfter(claim, r, reason, recs) ==
  IF reason = "Authorized"
  THEN recs \cup {[claimId |-> claim.claimId, eventId |-> claim.eventId,
                   redeemedAt |-> r]}
  ELSE recs

(***************************************************************************)
(* POST /api/claim (api.ts 233-242).                                       *)
(***************************************************************************)
\* if (isValid) { mintToken ... } else { throw BadRequest }
claimBranchAlwaysMint(isValid) == "mint"
claimBranch(isValid) == IF isValid THEN "mint" ELSE "reject"

\* mintToken(claim.eventId, claim.claimer)
mintArgsProofSigner(claim) == <<claim.eventId, claim.proof.by>>
mintArgs(claim) == <<claim.eventId, claim.claimer>>

\* await mintToken(...) rejects: the handler catches nothing and compensates
\* nothing, the records stay as verifyClaim left them
recordsRolledBack(r, recs) == {x \in recs : x.redeemedAt # r}
recordsOnMintFailure(r, recs) == recs

\* MintOrchestrator (4.3): a failed submission is submitted again only when
\* the failure is Transient and the retry budget is not used up
shouldRetryAnyFailure(o, attempts) == o # "Success" /\ attempts < RetryBudget
shouldRetry(o, attempts) == o = "Transient" /\ attempts < RetryBudget

\* the attempts made once the submission was repeated
attemptsNotCounted(n) == n
attemptsAfterRetry(n) == n + 1

\* throw new createError.BadRequest('Invalid Claim')
claimRejectionLeaky(q) ==
  [status |-> IF q.reason = "EventNotActive" THEN 404
              ELSE IF q.reason = "AlreadyRedeemed" THEN 409 ELSE 400,
   message |-> "Invalid Claim"]
claimRejection(q) == [status |-> 400, message |-> "Invalid Claim"]

\* res.status(204)
claimSuccess == [status |-> 204, message |-> ""]

\* the error mintToken rejects with, as the reply shows it (7)
ledgerError(kind) ==
  IF kind = "Transient" THEN [status |-> 503, message |-> "LedgerTransientError"]
  ELSE [status |-> 422, message |-> "LedgerPermanentError"]

\* await mintToken(...) rejects: there is no try/catch around it, the error
\* becomes the reply and res.status(204) is not reached
claimOnMintErrorSwallowed(err) == claimSuccess
claimOnMintError(err) == err

NoResp == [status |-> 0, message |-> ""]

IdleReq ==
  [pc |-> "idle", claim |-> NoClaim, isValid |-> FALSE, reason |-> Null,
   mintCalls |-> 0, args |-> <<>>, attempts |-> 0, answer |-> Null,
   succeeded |-> 0, resp |-> NoResp, malformed |-> FALSE, seenSigner |-> Null]

IdleBatch ==
  [pc |-> "idle", body |-> <<>>, eventId |-> 0, addresses |-> <<>>, started |-> <<>>,
   inflight |-> {}, attempts |-> <<>>, answers |-> <<>>, outcomes |-> <<>>,
   privileged |-> FALSE, malformed |-> FALSE, status |-> 0]

NoScan == [malformed |-> FALSE, status |-> 0, invoked |-> Null]

NoPut == [fancyid |-> Null, privileged |-> FALSE, malformed |-> FALSE]

\* the event records of the EventStore before any request
eventRow(e) ==
  [id |-> e, fancy_id |-> IF e = 1 THEN "devcon6" ELSE "ethcc",
   name |-> IF e = 1 THEN "Devcon" ELSE "EthCC",
   signer |-> SignerA, signer_ip |-> Null,
   event_url |-> "url0", image_url |-> "img0",
   description |-> "conference", year |-> 2019,
   start_date |-> "08-Oct-2019", end_date |-> "11-Oct-2019",
   city |-> "Osaka", country |-> "Japan"]

InitWith(ids) ==
  /\ events = [e \in ids |-> eventRow(e)]
  /\ records = {}
  /\ ledger = [k \in ClaimEventIds \X Addresses |-> 0]
  /\ req = [r \in Requests |-> IdleReq]
  /\ put = 0
  /\ putReq = NoPut
  /\ batch = IdleBatch
  /\ scan = NoScan
  /\ meta = <<>>

Init == InitWith(EventIds)

\* a request arrives: const claim = req.body;
\* const isValid = await verifyClaim(claim)
claimHandler(r, c, m) ==
  /\ req[r].pc = "idle"
  /\ IF r = 1 THEN TRUE ELSE req[r - 1].pc # "idle"   \* requests are numbered as they arrive
  /\ LET reason == verifyClaim(c, events, records)
     IN /\ records' = recordsAfter(c, r, reason, records)
        /\ req' = [req EXCEPT ![r].pc = "branch",
                              ![r].claim = c,
                              ![r].isValid = (reason = "Authorized"),
                              ![r].reason = reason,
                              ![r].malformed = m,
                              ![r].seenSigner = signerOf(c.eventId, events)]
  /\ UNCHANGED <<events, ledger, put, putReq, batch>>

\* the same for a body that passed the route's schema
ClaimVerify(r, c) == claimHandler(r, c, FALSE) /\ UNCHANGED <<scan, meta>>

\* if (isValid) { await mintToken(claim.eventId, claim.claimer) ... }
\* else { throw new createError.BadRequest('Invalid Claim') }
ClaimBranch(r) ==
  /\ req[r].pc = "branch"
  /\ IF claimBranch(req[r].isValid) = "mint"
     THEN req' = [req EXCEPT ![r].pc = "ledger",
                             ![r].mintCalls = @ + 1,
                             ![r].args = mintArgs(req[r].claim),
                             ![r].attempts = 1]
     ELSE req' = [req EXCEPT ![r].pc = "done",
                             ![r].resp = claimRejection(req[r])]
  /\ UNCHANGED <<events, records, ledger, put, putReq, batch, scan, meta>>

\* mintToken: the ledger client answers the submission in flight
ClaimLedgerAnswer(r, o) ==
  /\ req[r].pc = "ledger"
  /\ CASE o = "Success" ->
            /\ ledger' = [ledger EXCEPT ![req[r].args] = @ + 1]
            /\ req' = [req EXCEPT ![r].pc = "minted", ![r].succeeded = @ + 1,
                                  ![r].attempts = 0, ![r].answer = o]
            /\ UNCHANGED records
       [] o # "Success" /\ shouldRetry(o, req[r].attempts) ->
            /\ req' = [req EXCEPT ![r].attempts = attemptsAfterRetry(@),
                                  ![r].answer = o]
            /\ UNCHANGED <<ledger, records>>
       [] OTHER ->
            /\ req' = [req EXCEPT ![r].pc = "done",
                                  ![r].resp = claimOnMintError(ledgerError(o)),
                                  ![r].attempts = 0, ![r].answer = o]
            /\ records' = recordsOnMintFailure(r, records)
            /\ UNCHANGED ledger
  /\ UNCHANGED <<events, put, putReq, batch, scan, meta>>

\* res.status(204)
ClaimRespond(r) ==
  /\ req[r].pc = "minted"
  /\ req' = [req EXCEPT ![r].pc = "done", ![r].resp = claimSuccess]
  /\ UNCHANGED <<events, records, ledger, put, putReq, batch, scan, meta>>

(***************************************************************************)
(* PUT /api/events/:fancyid (api.ts 156-189).                              *)
(***************************************************************************)
\* updateEvent(fancyid, changed): the events after the update
updateEvent(fancyid, changed, evs) ==
  [e \in DOMAIN evs |->
     IF evs[e].fancy_id = fancyid
     THEN [evs[e] EXCEPT !.signer = changed.signer,
                         !.signer_ip = changed.signer_ip,
                         !.event_url = changed.event_url,
                         !.image_url = changed.image_url]
     ELSE evs[e]]

\* its result isOk: some event has this fancy id
updateEventOk(fancyid, evs) == \E e \in DOMAIN evs : evs[e].fancy_id = fancyid

\* fastify.authenticate: lets a request pass when it carries a valid
\* credential of a privileged caller, else answers 401
authenticate(privileged) == privileged

\* preValidation: [fastify.authenticate] of the PUT route
putNoPreValidation(privileged) == TRUE
putPreValidation(privileged) == authenticate(privileged)

\* preValidation: [fastify.authenticate] of the batch route
batchPreValidation(privileged) == authenticate(privileged)

\* the object handed to updateEvent
putChanged(body) ==
  [signer |-> body.signer, signer_ip |-> body.signer_ip,
   event_url |-> body.event_url, image_url |-> body.image_url]

\* if (!isOk) return new createError.NotFound('Invalid event'); res.status(204)
putStatusAlways204(isOk) == 204
putStatus(isOk) == IF isOk THEN 204 ELSE 404

putHandler(fancyid, body, privileged, m) ==
  /\ IF ~putPreValidation(privileged)
     THEN /\ put' = 401
          /\ UNCHANGED events
     ELSE /\ events' = updateEvent(fancyid, putChanged(body), events)
          /\ put' = putStatus(updateEventOk(fancyid, events))
  /\ putReq' = [fancyid |-> fancyid, privileged |-> privileged, malformed |-> m]
  /\ UNCHANGED <<records, ledger, req, batch>>

\* the same for a body that passed the route's schema
PutEvent(fancyid, body, privileged) ==
  putHandler(fancyid, body, privileged, FALSE) /\ UNCHANGED <<scan, meta>>

(***************************************************************************)
(* POST /api/mintTokenBatch (api.ts 190-214) and MintOrchestrator.mintBatch *)
(* (4.3) behind mintTokens.                                                *)
(***************************************************************************)
\* address lists that pass the route's schema (minItems 1, items address#)
AddressLists(n) == UNION {[1..k -> {AddrB, AddrC}] : k \in 1..n}

NoOutcome == [address |-> Null, success |-> FALSE, ref |-> Null]

\* mintTokens(req.body.eventId, req.body.addresses): the recipients handed over
batchRecipientsTail(body) == Tail(body.addresses)
batchRecipients(body) == body.addresses

\* the address a free worker takes next: the first one not yet started
nextToStart(b) ==
  IF Len(b.started) < Len(b.addresses) THEN {Len(b.started) + 1} ELSE {}

\* the workers that may take an address
poolHasRoomAlways(b) == TRUE
poolHasRoom(b) == Cardinality(b.inflight) < PoolSize

\* what a failed address does to the rest of the batch: nothing
afterFailure(b) == b

\* the request arrives; preValidation: [fastify.authenticate]; mintTokens is called
batchHandler(privileged, body, maxLen, m) ==
  /\ batch.pc = "idle"
  /\ Len(body.addresses) <= maxLen
  /\ IF ~batchPreValidation(privileged)
     THEN batch' = [batch EXCEPT !.pc = "done", !.body = body, !.status = 401,
                                 !.malformed = m]
     ELSE LET to == batchRecipients(body)
          IN batch' = [batch EXCEPT !.pc = "running",
                                    !.privileged = TRUE,
                                    !.malformed = m,
                                    !.body = body,
                                    !.eventId = body.eventId,
                                    !.addresses = to,
                                    !.attempts = [k \in 1..Len(to) |-> 0],
                                    !.answers = [k \in 1..Len(to) |-> Null],
                                    !.outcomes = [k \in 1..Len(to) |-> NoOutcome]]
  /\ UNCHANGED <<events, records, ledger, req, put, putReq>>

\* the same for a body that passed the route's schema
BatchReceive(privileged, body, maxLen) ==
  batchHandler(privileged, body, maxLen, FALSE) /\ UNCHANGED <<scan, meta>>

\* a free worker submits the next address to the ledger
BatchSubmit(i) ==
  /\ batch.pc = "running"
  /\ poolHasRoom(batch)
  /\ i \in nextToStart(batch)
  /\ batch.outcomes[i] = NoOutcome
  /\ batch' = [batch EXCEPT !.started = Append(@, i),
                            !.inflight = @ \cup {i},
                            !.attempts[i] = 1]
  /\ UNCHANGED <<events, records, ledger, req, put, putReq, scan, meta>>

\* the ledger client answers the submission of address i
BatchLedgerAnswer(i, o) ==
  /\ batch.pc = "running"
  /\ i \in batch.inflight
  /\ CASE o = "Success" ->
            /\ ledger' = [ledger EXCEPT ![<<batch.eventId, batch.addresses[i]>>] = @ + 1]
            /\ batch' = [batch EXCEPT !.inflight = @ \ {i},
                                      !.attempts[i] = 0,
                                      !.answers[i] = o,
                                      !.outcomes[i] = [address |-> batch.addresses[i],
                                                       success |-> TRUE, ref |-> "tx"]]
       [] o # "Success" /\ shouldRetry(o, batch.attempts[i]) ->
            /\ batch' = [batch EXCEPT !.attempts[i] = attemptsAfterRetry(@),
                                      !.answers[i] = o]
            /\ UNCHANGED ledger
       [] OTHER ->
            /\ batch' = afterFailure(
                 [batch EXCEPT !.inflight = @ \ {i},
                               !.attempts[i] = 0,
                               !.answers[i] = o,
                               !.outcomes[i] = [address |-> batch.addresses[i],
                                                success |-> FALSE, ref |-> o]])
            /\ UNCHANGED ledger
  /\ UNCHANGED <<events, records, req, put, putReq, scan, meta>>

\* mintTokens returns its outcomes; res.status(204)
BatchRespond ==
  /\ batch.pc = "running"
  /\ batch.inflight = {}
  /\ \A k \in 1..Len(batch.addresses) : batch.outcomes[k] # NoOutcome
  /\ batch' = [batch EXCEPT !.pc = "done", !.status = 204]
  /\ UNCHANGED <<events, records, ledger, req, put, putReq, scan, meta>>

BatchBodies == [eventId : {1}, addresses : AddressLists(MaxBatch)]

\* all the routes together: the requests carry claim c1, validly signed or with
\* a proof not by the event signer, the privileged requests update the event
\* and mint a batch to the claimer of c1
FullInputs == {mkClaim("c1", 1, AddrB, SignerA, AddrB),
               mkClaim("c1", 1, AddrB, AddrC, AddrB)}
FullBatchBodies ==
  [eventId : {1}, addresses : UNION {[1..k -> {AddrB}] : k \in 1..FullBatch}]

Next ==
  \/ \E r \in 1..NumFull, c \in FullInputs : ClaimVerify(r, c)
  \/ \E r \in Requests : ClaimBranch(r)
  \/ \E r \in Requests, o \in Outcomes : ClaimLedgerAnswer(r, o)
  \/ \E r \in Requests : ClaimRespond(r)
  \/ \E b \in PutBodies : PutEvent("devcon6", b, TRUE)
  \/ \E b \in FullBatchBodies : BatchReceive(TRUE, b, FullBatch)
  \/ \E i \in 1..FullBatch : BatchSubmit(i)
  \/ \E i \in 1..FullBatch, o \in Outcomes : BatchLedgerAnswer(i, o)
  \/ BatchRespond

Spec == Init /\ [][Next]_vars

\* the claim route beside privileged PUTs that update the event
NextClaim ==
  \/ \E r \in 1..NumFull, c \in ClaimInputs : ClaimVerify(r, c)
  \/ \E r \in Requests : ClaimBranch(r)
  \/ \E r \in Requests, o \in Outcomes : ClaimLedgerAnswer(r, o)
  \/ \E r \in Requests : ClaimRespond(r)
  \/ \E b \in PutBodies : PutEvent("devcon6", b, TRUE)

SpecClaim == Init /\ [][NextClaim]_vars

\* NumReq requests that carry the same claimId, the event left as it is
NextRace ==
  \/ \E r \in Requests, c \in RaceInputs : ClaimVerify(r, c)
  \/ \E r \in Requests : ClaimBranch(r)
  \/ \E r \in Requests, o \in Outcomes : ClaimLedgerAnswer(r, o)
  \/ \E r \in Requests : ClaimRespond(r)

SpecRace == Init /\ [][NextRace]_vars


\* one batch mint of up to MaxBatch addresses
NextBatch ==
  \/ \E p \in BOOLEAN, b \in BatchBodies : BatchReceive(p, b, MaxBatch)
  \/ \E i \in 1..MaxBatch : BatchSubmit(i)
  \/ \E i \in 1..MaxBatch, o \in Outcomes : BatchLedgerAnswer(i, o)
  \/ BatchRespond

SpecBatch == Init /\ [][NextBatch]_vars

\* NumReplay requests that carry claimId c1 while privileged PUTs update the
\* event
NextReplay ==
  \/ \E r \in 1..NumReplay, c \in RaceInputs : ClaimVerify(r, c)
  \/ \E r \in Requests : ClaimBranch(r)
  \/ \E r \in Requests, o \in Outcomes : ClaimLedgerAnswer(r, o)
  \/ \E r \in Requests : ClaimRespond(r)
  \/ \E b \in PutBodies : PutEvent("devcon6", b, TRUE)

SpecReplay == Init /\ [][NextReplay]_vars

(***************************************************************************)
(* The properties.                                                         *)
(***************************************************************************)
ValidC1 == mkClaim("c1", 1, AddrB, SignerA, AddrB)
InvalidClaim == [status |-> 400, message |-> "Invalid Claim"]

Received(r) == req[r].pc # "idle"
Done(r) == req[r].pc = "done"
RecordsOf(cid) == {x \in records : x.claimId = cid}

\* C1: of the concurrent requests that carry the same valid, unredeemed claim
\* exactly one is authorized and calls the ledger mint, once; every other one
\* is rejected as AlreadyRedeemed and calls no mint.
C1_ExactlyOneMint ==
  LET V == {r \in Requests : Received(r) /\ req[r].claim = ValidC1}
      W == {r \in V : req[r].isValid}
      M == {r \in Requests : req[r].claim.claimId = "c1" /\ req[r].mintCalls > 0}
  IN V # {} =>
       /\ Cardinality(W) = 1
       /\ \A r \in V \ W : /\ req[r].reason = "AlreadyRedeemed"
                           /\ Done(r) => req[r].resp = InvalidClaim
       /\ M \subseteq W
       /\ \A r \in M : req[r].mintCalls = 1
       /\ \A r \in W : req[r].pc # "branch" => r \in M

\* the mint of the first request is in flight, all the others were rejected
C1_Witness ==
  /\ \A r \in Requests : req[r].claim = ValidC1
  /\ req[1].pc = "ledger"
  /\ \A r \in Requests \ {1} : Done(r) /\ req[r].resp = InvalidClaim

C3_RedemptionMonotone ==
  [][ \A cid \in ClaimIds :
        /\ Redeemed(cid, records) => Redeemed(cid, records')
        /\ Cardinality({x \in records' : x.claimId = cid}) <= 1 ]_vars

\* c1 is redeemed, a second request for it was rejected, its mint failed, the
\* event was deactivated by a PUT and a batch mint has completed
C3_Witness ==
  /\ Cardinality(RecordsOf("c1")) = 1
  /\ req[1].resp.status = 422
  /\ req[2].reason = "AlreadyRedeemed"
  /\ put = 204 /\ events[1].signer = Null
  /\ batch.status = 204

\* C4: a request whose authorization failed is answered 400 'Invalid Claim',
\* calls no ledger mint and leaves no RedemptionRecord; a mint is only ever
\* called by a request whose authorization succeeded.
C4_MintOnlyIfAuthorized ==
  \A r \in Requests :
    /\ (Received(r) /\ ~req[r].isValid)
         => /\ req[r].mintCalls = 0
            /\ req[r].succeeded = 0
            /\ req[r].pc \in {"branch", "done"}
            /\ Done(r) => req[r].resp = InvalidClaim
            /\ \A x \in records : x.redeemedAt # r
    /\ (req[r].mintCalls > 0 \/ req[r].pc \in {"ledger", "minted"})
         => req[r].isValid /\ req[r].reason = "Authorized"

\* a request with a wrong proof and one with a wrong consent were both answered
C4_Witness ==
  /\ Done(1) /\ req[1].reason = "InvalidProof" /\ req[1].resp = InvalidClaim
  /\ Done(2) /\ req[2].reason = "InvalidClaimerSignature"
  /\ records = {}

\* C5: a request answered 204 called the ledger mint exactly once, with
\* (claim.eventId, claim.claimer) of its authorized claim, and that mint had
\* returned success when the 204 was produced.
C5_OneMintPer204 ==
  \A r \in Requests :
    req[r].resp.status = 204
      => /\ req[r].isValid
         /\ req[r].mintCalls = 1
         /\ req[r].args = <<req[r].claim.eventId, req[r].claim.claimer>>
         /\ req[r].succeeded = 1
         /\ ledger[<<req[r].claim.eventId, req[r].claim.claimer>>] >= 1

\* two requests with different claims, both answered 204
C5_Witness ==
  /\ req[1].resp.status = 204 /\ req[2].resp.status = 204
  /\ req[1].claim.claimId # req[2].claim.claimId
  /\ ledger[<<1, AddrB>>] = 1 /\ ledger[<<1, AddrC>>] = 1

\* C6: no claimId is minted twice, and no claimId stays redeemed without a
\* token: once the request that redeemed it has finished, its mint succeeded.
C6_NoDoubleMintNoStuckClaim ==
  /\ \A cid \in ClaimIds :
       Cardinality({r \in Requests : req[r].claim.claimId = cid
                                     /\ req[r].succeeded > 0}) <= 1
  /\ \A r \in Requests :
       (Done(r) /\ Redeemed(req[r].claim.claimId, records)
          /\ \E x \in records : x.redeemedAt = r)
         => req[r].succeeded = 1

\* C7: when verifyClaim runs while the event's signer is null the claim is
\* rejected as EventNotActive and no RedemptionRecord is created; such a
\* request never calls the ledger mint and is answered 400.
C7_NullSignerAcceptsNoClaim ==
  [][ /\ \A r \in Requests :
           ( /\ ~Received(r) /\ req'[r].pc # "idle"
             /\ req'[r].claim.eventId \in DOMAIN events
             /\ events[req'[r].claim.eventId].signer = Null )
           => /\ req'[r].reason = "EventNotActive"
              /\ ~req'[r].isValid
              /\ records' = records
      /\ \A r \in Requests :
           req'[r].reason = "EventNotActive"
           => /\ req'[r].mintCalls = 0 /\ req'[r].succeeded = 0
              /\ req'[r].pc \in {"branch", "done"}
              /\ req'[r].pc = "done" => req'[r].resp = InvalidClaim
              /\ \A x \in records' : x.redeemedAt # r
    ]_vars

\* a valid claim was rejected after a PUT had set the signer to null, and
\* another one was authorized after a later PUT had set the signer again
C7_Witness ==
  /\ req[1].claim = ValidC1 /\ req[1].reason = "EventNotActive" /\ Done(1)
  /\ req[2].claim = ValidC1 /\ req[2].isValid
  /\ ledger[<<1, AddrB>>] = 1

\* C8: every request whose authorization failed gets the same response, the
\* 400 'Invalid Claim', whichever of the checks failed.
C8_RejectionsIndistinguishable ==
  \A r1, r2 \in Requests :
    (Done(r1) /\ ~req[r1].isValid /\ Done(r2) /\ ~req[r2].isValid)
      => /\ req[r1].resp = req[r2].resp
         /\ req[r1].resp = InvalidClaim

\* two requests rejected by different checks
C8_Witness ==
  /\ Done(1) /\ Done(2)
  /\ req[1].reason = "InvalidProof"
  /\ req[2].reason = "EventNotActive"
  /\ req[1].resp = req[2].resp

StartedSet == {batch.started[k] : k \in 1..Len(batch.started)}

\* C9: a completed batch has one outcome per address of the request, outcome i
\* for address i; every address was submitted to the ledger and its outcome is
\* the ledger's answer for it, whatever happened to the other addresses; and
\* while the batch runs no address gets an outcome without being submitted.
C9_OneOutcomePerAddress ==
  /\ batch.status = 204 =>
       /\ Len(batch.outcomes) = Len(batch.body.addresses)
       /\ \A i \in 1..Len(batch.body.addresses) :
            /\ batch.outcomes[i].address = batch.body.addresses[i]
            /\ i \in StartedSet
            /\ batch.outcomes[i].ref \in {"tx", "Transient", "Permanent"}
            /\ batch.outcomes[i].success <=> batch.outcomes[i].ref = "tx"
  /\ batch.pc = "running" =>
       \A i \in 1..Len(batch.addresses) :
         batch.outcomes[i] # NoOutcome => i \in StartedSet

\* a batch of three where the second address failed for good and the other
\* two were minted
C9_Witness ==
  /\ batch.status = 204
  /\ Len(batch.body.addresses) = 3
  /\ batch.outcomes[1].success
  /\ batch.outcomes[2].ref = "Permanent"
  /\ batch.outcomes[3].success

\* C10: the submissions of a batch in flight never exceed the worker pool,
\* which holds at most 4, so a longer batch is never fully in parallel; and the
\* addresses are started in the order of the request.
C10_BatchSequenced ==
  /\ PoolSize <= 4
  /\ Cardinality(batch.inflight) <= PoolSize
  /\ Len(batch.addresses) > PoolSize
       => Cardinality(batch.inflight) < Len(batch.addresses)
  /\ batch.inflight \subseteq StartedSet
  /\ \A k \in 1..Len(batch.started) : batch.started[k] = k

\* the pool is full while a third address waits
C10_Witness ==
  /\ batch.pc = "running"
  /\ Len(batch.addresses) = 3
  /\ Cardinality(batch.inflight) = PoolSize
  /\ batch.started = <<1, 2>>
  /\ batch.outcomes[3] = NoOutcome

\* C11: a mint never makes more than RetryBudget = 3 ledger submissions; a
\* submission is repeated only after a Transient answer; after a Permanent
\* answer or a success the mint is over and nothing more is submitted for it.
C11_BoundedTransientRetry ==
  [][ /\ RetryBudget = 3
      /\ \A r \in Requests :
           /\ req'[r].attempts <= RetryBudget
           /\ (req[r].pc = "ledger" /\ req'[r].attempts > req[r].attempts)
                => req'[r].answer = "Transient"
           /\ (req[r].pc = "ledger" /\ req'[r] # req[r]
                 /\ req'[r].answer \in {"Permanent", "Success"})
                => req'[r].pc # "ledger" /\ req'[r].attempts = 0
           /\ req[r].pc \in {"minted", "done"}
                => req'[r].pc \in {"minted", "done"} /\ req'[r].attempts = 0
      /\ \A i \in 1..Len(batch'.addresses) :
           /\ batch'.attempts[i] <= RetryBudget
           /\ (i \in batch.inflight /\ batch'.attempts[i] > batch.attempts[i])
                => batch'.answers[i] = "Transient"
           /\ (i \in batch.inflight /\ batch' # batch
                 /\ batch'.answers[i] \in {"Permanent", "Success"})
                => i \notin batch'.inflight /\ batch'.attempts[i] = 0
           /\ (batch.pc # "idle" /\ batch.outcomes[i] # NoOutcome)
                => batch'.outcomes[i] = batch.outcomes[i]
    ]_vars

\* the third submission of a claim's mint is in flight after two Transient
\* answers, and the mint of a batch address ended with a Permanent answer
C11_Witness ==
  /\ req[1].pc = "ledger" /\ req[1].attempts = RetryBudget
  /\ req[1].answer = "Transient"
  /\ batch.pc = "running" /\ batch.answers[1] = "Permanent"

\* The routes under the scheduling the runtime gives them: a continuation that
\* is ready runs, and a ledger submission that got no answer is ended by its
\* timeout, which mintToken classifies as a Transient failure (4.3, 5).
NextLive ==
  \/ \E r \in 1..NumLive, c \in FullInputs : ClaimVerify(r, c)
  \/ \E r \in 1..NumLive : ClaimBranch(r)
  \/ \E r \in 1..NumLive, o \in Outcomes : ClaimLedgerAnswer(r, o)
  \/ \E r \in 1..NumLive : ClaimRespond(r)
  \/ \E b \in BatchBodies : BatchReceive(TRUE, b, LiveBatch)
  \/ \E i \in 1..LiveBatch : BatchSubmit(i)
  \/ \E i \in 1..LiveBatch, o \in Outcomes : BatchLedgerAnswer(i, o)
  \/ BatchRespond

Fairness ==
  /\ \A r \in 1..NumLive :
       /\ WF_vars(ClaimBranch(r))
       /\ WF_vars(ClaimLedgerAnswer(r, "Transient"))
       /\ WF_vars(ClaimRespond(r))
  /\ \A i \in 1..LiveBatch :
       /\ WF_vars(BatchSubmit(i))
       /\ WF_vars(BatchLedgerAnswer(i, "Transient"))
  /\ WF_vars(BatchRespond)

SpecLive == Init /\ [][NextLive]_vars /\ Fairness

\* C12: a claim request whose mint reached the ledger, and a batch request
\* that was accepted, is eventually answered, also when the ledger answers
\* nothing but timeouts and Transient failures.
C12_MintsTerminate ==
  /\ \A r \in 1..NumLive : (req[r].pc = "ledger") ~> (req[r].pc = "done")
  /\ (batch.pc = "running") ~> (batch.pc = "done")

\* a claim answered with the ledger's Transient failure after the whole
\* budget, next to a batch that was answered
C12_Witness ==
  /\ req[1].pc = "done" /\ req[1].mintCalls = 1 /\ req[1].answer = "Transient"
  /\ batch.pc = "done" /\ batch.status = 204 /\ batch.answers[1] = "Transient"

(***************************************************************************)
(* The privileged routes, called with and without a credential, over a     *)
(* store of two events, beside claim requests.                             *)
(***************************************************************************)
AdminEventIds == {1, 2}
AdminFancyIds == PutFancyIds \cup {"ethcc"}
AdminBatchBodies == [eventId : {1}, addresses : {<<AddrB>>}]

InitAdmin == InitWith(AdminEventIds)

NextAdmin ==
  \/ \E r \in 1..NumAdmin, c \in FullInputs : ClaimVerify(r, c)
  \/ \E r \in 1..NumAdmin : ClaimBranch(r)
  \/ \E r \in 1..NumAdmin, o \in Outcomes : ClaimLedgerAnswer(r, o)
  \/ \E r \in 1..NumAdmin : ClaimRespond(r)
  \/ \E f \in AdminFancyIds, b \in PutBodies, p \in BOOLEAN : PutEvent(f, b, p)
  \/ \E b \in AdminBatchBodies, p \in BOOLEAN : BatchReceive(p, b, Len(b.addresses))
  \/ \E i \in {1} : BatchSubmit(i)
  \/ \E i \in {1}, o \in Outcomes : BatchLedgerAnswer(i, o)
  \/ BatchRespond

SpecAdmin == InitAdmin /\ [][NextAdmin]_vars

\* C13: a PUT /api/events/:fancyid without a valid credential is answered
\* 401/403 and leaves every event as it was; a POST /api/mintTokenBatch without
\* one is answered 401/403 and submits no mint to the ledger.
C13_NoCredentialNoMutation ==
  [][ /\ (putReq' # NoPut /\ ~putReq'.privileged)
           => put' \in {401, 403} /\ events' = events
      /\ (<<put, putReq>>' # <<put, putReq>> /\ ~putReq'.privileged)
           => UNCHANGED <<events, records, ledger, req, batch>>
      /\ (batch'.pc # "idle" /\ ~batch'.privileged)
           => /\ batch'.status \in {401, 403}
              /\ batch'.started = <<>> /\ batch'.inflight = {}
      /\ (batch' # batch /\ ~batch'.privileged)
           => UNCHANGED <<events, records, ledger, req>>
    ]_vars

\* an unprivileged PUT for a known event and an unprivileged batch were answered
C13_Witness ==
  /\ putReq.fancyid = "devcon6" /\ ~putReq.privileged /\ put = 401
  /\ batch.pc = "done" /\ ~batch.privileged /\ batch.status = 401
  /\ batch.body.addresses = <<AddrB>>

(***************************************************************************)
(* Schema validation (api.ts 45-59 and the routes' schemas).  A string on  *)
(* the wire is a sequence of characters; kind says how it was built.       *)
(***************************************************************************)
HexDigits ==
  {"0", "1", "2", "3", "4", "5", "6", "7", "8", "9",
   "a", "b", "c", "d", "e", "f", "A", "B", "C", "D", "E", "F"}

AddressLength == 42        \* minLength, maxLength of address#
AddressHexDigits == 40     \* {40} of its pattern
SignatureLength == 132     \* minLength, maxLength of signature#
SignatureHexDigits == 130  \* {130} of its pattern

\* pattern: '^0x[0-9a-fA-F]{n}$'
matchesHexPattern(s, n) ==
  /\ Len(s) = n + 2
  /\ s[1] = "0" /\ s[2] = "x"
  /\ \A i \in 3..(n + 2) : s[i] \in HexDigits

\* $id: 'address'
addressSchemaLengthOnly(s) == Len(s) >= AddressLength /\ Len(s) <= AddressLength
addressSchema(s) ==
  /\ Len(s) >= AddressLength /\ Len(s) <= AddressLength
  /\ matchesHexPattern(s, AddressHexDigits)

\* $id: 'signature'
signatureSchema(s) ==
  /\ Len(s) >= SignatureLength /\ Len(s) <= SignatureLength
  /\ matchesHexPattern(s, SignatureHexDigits)

Rep(c, n) == [i \in 1..n |-> c]
wireAddress(c) == <<"0", "x">> \o Rep(c, AddressHexDigits)
wireSignature(c) == <<"0", "x">> \o Rep(c, SignatureHexDigits)

\* address fields as requests carry them
WireAddresses ==
  { [json |-> "string", s |-> wireAddress("B"), kind |-> "ok"],
    [json |-> "string", s |-> wireAddress("a"), kind |-> "ok"],
    [json |-> "string", s |-> <<"0", "x">> \o Rep("B", AddressHexDigits - 1),
     kind |-> "length"],
    [json |-> "string", s |-> <<"0", "x">> \o Rep("B", AddressHexDigits + 1),
     kind |-> "length"],
    [json |-> "string", s |-> <<"0", "X">> \o Rep("B", AddressHexDigits),
     kind |-> "prefix"],
    [json |-> "string", s |-> <<"0", "x">> \o Rep("B", AddressHexDigits - 1) \o <<"g">>,
     kind |-> "nonhex"] }

\* signature fields as requests carry them
WireSignatures ==
  { [json |-> "string", s |-> wireSignature("1"), kind |-> "ok"],
    [json |-> "string", s |-> wireSignature("2"), kind |-> "ok"],
    [json |-> "string", s |-> <<"0", "x">> \o Rep("1", SignatureHexDigits - 1),
     kind |-> "length"],
    [json |-> "string", s |-> <<"x", "0">> \o Rep("1", SignatureHexDigits),
     kind |-> "prefix"],
    [json |-> "string", s |-> <<"0", "x", "-">> \o Rep("1", SignatureHexDigits - 1),
     kind |-> "nonhex"] }

WireNull == [json |-> "null", s |-> <<>>, kind |-> "ok"]

\* the value a helper gets for a string of the body
decodeAddress(s) ==
  IF s = wireAddress("B") THEN AddrB
  ELSE IF s = wireAddress("a") THEN SignerA
  ELSE Garbage
decodeSignature(s) ==
  IF s = wireSignature("1") THEN sign_by(SignerA, bindProof("c1", 1, AddrB))
  ELSE IF s = wireSignature("2") THEN sign_by(AddrB, bindConsent("c1"))
  ELSE sign_by(Garbage, <<>>)

\* POST /api/claim: bodies on the wire, the route's schema, req.body
GoodWireClaim ==
  [claimId |-> "c1", eventId |-> 1,
   proof |-> [json |-> "string", s |-> wireSignature("1"), kind |-> "ok"],
   claimer |-> [json |-> "string", s |-> wireAddress("B"), kind |-> "ok"],
   claimerSignature |-> [json |-> "string", s |-> wireSignature("2"), kind |-> "ok"]]
WireClaims ==
  {[GoodWireClaim EXCEPT !.proof = x] : x \in WireSignatures}
    \cup {[GoodWireClaim EXCEPT !.claimer = x] : x \in {a \in WireAddresses : a.kind # "ok"}}
    \cup {[GoodWireClaim EXCEPT !.claimerSignature = x] :
             x \in {g \in WireSignatures : g.kind # "ok"}}
claimSchema(w) ==
  /\ w.eventId >= 1
  /\ signatureSchema(w.proof.s)
  /\ addressSchema(w.claimer.s)
  /\ signatureSchema(w.claimerSignature.s)
claimBody(w) ==
  [claimId |-> w.claimId, eventId |-> w.eventId,
   proof |-> decodeSignature(w.proof.s),
   claimer |-> decodeAddress(w.claimer.s),
   claimerSignature |-> decodeSignature(w.claimerSignature.s)]

\* PUT /api/events/:fancyid: signer: { anyOf: ['address#', { type: 'null' }] }
WirePutBodies ==
  [signer : (WireAddresses \ {GoodWireClaim.claimer}) \cup {WireNull},
   signer_ip : {Null}, event_url : {"url0"}, image_url : {"img0"}]
putSchema(w) == w.signer.json = "null" \/ addressSchema(w.signer.s)
putBody(w) ==
  [signer |-> IF w.signer.json = "null" THEN Null ELSE decodeAddress(w.signer.s),
   signer_ip |-> w.signer_ip, event_url |-> w.event_url, image_url |-> w.image_url]

\* POST /api/mintTokenBatch: addresses: { minItems: 1, items: 'address#' }
WireBatchBodies ==
  [eventId : {1},
   addresses : {<<a>> : a \in {x \in WireAddresses : x.s # wireAddress("a")}}]
batchSchema(w) ==
  /\ w.eventId >= 1
  /\ Len(w.addresses) >= 1
  /\ \A k \in 1..Len(w.addresses) : addressSchema(w.addresses[k].s)
batchBody(w) ==
  [eventId |-> w.eventId,
   addresses |-> [k \in 1..Len(w.addresses) |-> decodeAddress(w.addresses[k].s)]]

\* whether some address or signature field was built against its format
Malformed(fields) == \E f \in fields : f.kind # "ok"


\* a validation failure as the reply shows it
schemaError == [status |-> 400, message |-> "Bad Request"]

\* POST /api/claim, from the wire
ClaimArrive(r, w) ==
  LET m == Malformed({w.proof, w.claimer, w.claimerSignature})
  IN /\ IF claimSchema(w)
        THEN claimHandler(r, claimBody(w), m)
        ELSE /\ req[r].pc = "idle"
             /\ IF r = 1 THEN TRUE ELSE req[r - 1].pc # "idle"
             /\ req' = [req EXCEPT ![r].pc = "done", ![r].resp = schemaError,
                                   ![r].malformed = m]
             /\ UNCHANGED <<events, records, ledger, put, putReq, batch>>
     /\ UNCHANGED <<scan, meta>>

\* GET /api/scan/:address, from the wire: getAllTokens reads the ledger and
\* changes nothing; the reply keeps whether it was called
ScanArrive(a) ==
  /\ scan' = [malformed |-> Malformed({a}),
              status |-> IF addressSchema(a.s) THEN 200 ELSE 400,
              invoked |-> IF addressSchema(a.s) THEN "getAllTokens" ELSE Null]
  /\ UNCHANGED <<events, records, ledger, req, put, putReq, batch, meta>>

\* PUT /api/events/:fancyid, from the wire: preValidation runs before validation
PutArrive(fancyid, w, privileged) ==
  LET m == Malformed({w.signer})
  IN /\ IF putPreValidation(privileged) /\ ~putSchema(w)
        THEN /\ put' = schemaError.status
             /\ putReq' = [fancyid |-> fancyid, privileged |-> privileged,
                           malformed |-> m]
             /\ UNCHANGED <<events, records, ledger, req, batch>>
        ELSE putHandler(fancyid, putBody(w), privileged, m)
     /\ UNCHANGED <<scan, meta>>

\* POST /api/mintTokenBatch, from the wire
BatchArrive(privileged, w, maxLen) ==
  LET m == Malformed({w.addresses[k] : k \in 1..Len(w.addresses)})
  IN /\ IF batchPreValidation(privileged) /\ ~batchSchema(w)
        THEN /\ batch.pc = "idle"
             /\ Len(w.addresses) <= maxLen
             /\ batch' = [batch EXCEPT !.pc = "done", !.privileged = TRUE,
                                       !.malformed = m,
                                       !.status = schemaError.status]
             /\ UNCHANGED <<events, records, ledger, req, put, putReq>>
        ELSE batchHandler(privileged, batchBody(w), maxLen, m)
     /\ UNCHANGED <<scan, meta>>

NextGate ==
  \/ \E r \in 1..NumGate, w \in WireClaims : ClaimArrive(r, w)
  \/ \E r \in 1..NumGate : ClaimBranch(r)
  \/ \E r \in 1..NumGate, o \in Outcomes : ClaimLedgerAnswer(r, o)
  \/ \E r \in 1..NumGate : ClaimRespond(r)
  \/ \E a \in WireAddresses : ScanArrive(a)
  \/ \E w \in WirePutBodies, p \in BOOLEAN : PutArrive("devcon6", w, p)
  \/ \E w \in WireBatchBodies, p \in BOOLEAN : BatchArrive(p, w, Len(w.addresses))
  \/ \E i \in {1} : BatchSubmit(i)
  \/ \E i \in {1}, o \in Outcomes : BatchLedgerAnswer(i, o)
  \/ BatchRespond

SpecGate == Init /\ [][NextGate]_vars

\* the last request of each route that had a malformed address or signature
\* field, and the status it was answered with
MalformedAnswers ==
  {req[r].resp.status : r \in {x \in Requests : req[x].malformed}}
    \cup (IF putReq.malformed THEN {put} ELSE {})
    \cup (IF batch.malformed THEN {batch.status} ELSE {})
    \cup (IF scan.malformed THEN {scan.status} ELSE {})

\* C14 as stated: a request with a malformed address or signature field is
\* answered 400.
C14_MalformedAnswered400 == MalformedAnswers \subseteq {400}

\* C14, amended: a request with a malformed address or signature field is
\* answered 400, or 401 on a privileged route when it has no credential
\* (preValidation runs before validation); verifyClaim, mintToken, mintTokens,
\* getAllTokens and updateEvent are not invoked for it: the claim request has
\* no verdict and no mint, the batch no recipient, and the step that answers
\* it changes no event, record or ledger entry.
C14_MalformedStopsAtBoundary ==
  [][ /\ \A r \in Requests :
           req'[r].malformed =>
             /\ req'[r].resp = schemaError /\ req'[r].pc = "done"
             /\ req'[r].reason = Null /\ req'[r].claim = NoClaim
             /\ req'[r].mintCalls = 0
             /\ req[r] # req'[r] => UNCHANGED <<events, records, ledger>>
      /\ putReq'.malformed =>
           /\ put' = IF putReq'.privileged THEN 400 ELSE 401
           /\ events' = events
      /\ batch'.malformed =>
           /\ batch'.status = IF batch'.privileged THEN 400 ELSE 401
           /\ batch'.pc = "done"
           /\ batch'.addresses = <<>> /\ batch'.started = <<>>
           /\ batch # batch' => UNCHANGED <<events, records, ledger>>
      /\ scan'.malformed => scan'.status = 400 /\ scan'.invoked = Null
    ]_vars

\* a claim with a non-hex claimer was turned away after an earlier claim had
\* been verified and minted, and so were a PUT, a batch and a scan
C14_Witness ==
  /\ NumGate >= 2 => req[2].malformed /\ req[2].resp.status = 400
  /\ req[1].pc = "done" /\ (req[1].succeeded = 1 \/ req[1].malformed)
  /\ putReq.malformed /\ putReq.privileged /\ put = 400
  /\ batch.malformed /\ batch.privileged /\ batch.status = 400
  /\ scan.malformed /\ scan.status = 400

\* the records that carry the claimId of a claim
OwnRecords(claim, recs) == {x \in recs : x.claimId = claim.claimId}

\* C15: requests for different claimIds never block each other.  While a
\* request is suspended in its ledger submission, a request for another
\* claimId is verified with the verdict it would get if only the records of
\* its own claimId existed, and each of its next steps (verdict, mint
\* submission, ledger answer, reply) can be taken at once.
C15_ClaimIdsIndependent ==
  [][ \A a \in 1..NumFull, b \in 1..NumFull :
        ( /\ req[a].pc = "ledger"
          /\ a # b
          /\ req'[b].claim.claimId # req[a].claim.claimId )
        => /\ (~Received(b) /\ req'[b].pc # "idle")
                => req'[b].reason
                     = authorize(req'[b].claim, events,
                                 OwnRecords(req'[b].claim, records))
           /\ req[b].pc = "branch" => ENABLED ClaimBranch(b)
           /\ req[b].pc = "ledger" => ENABLED ClaimLedgerAnswer(b, "Success")
           /\ req[b].pc = "minted" => ENABLED ClaimRespond(b)
    ]_vars

\* the request for c2 was verified, minted and answered 204 while the
\* request for c1 was still waiting for the ledger
C15_Witness ==
  /\ req[1].claim.claimId = "c1" /\ req[1].pc = "ledger"
  /\ req[2].claim.claimId = "c2" /\ req[2].resp.status = 204
  /\ ledger[<<1, AddrC>>] = 1 /\ ledger[<<1, AddrB>>] = 0

(***************************************************************************)
(* GET /metadata/:eventId/:tokenId (api.ts 8-42, 61-68).  The path         *)
(* parameters are sequences of characters.                                 *)
(***************************************************************************)
Digits == <<"0", "1", "2", "3", "4", "5", "6", "7", "8", "9">>
IsDigit(c) == \E d \in 1..Len(Digits) : Digits[d] = c
DigitValue(c) == (CHOOSE d \in 1..Len(Digits) : Digits[d] = c) - 1
NaN == -1

\* the leading decimal digits of s
RECURSIVE LeadingDigits(_)
LeadingDigits(s) ==
  IF s = <<>> \/ ~IsDigit(Head(s)) THEN <<>>
  ELSE <<Head(s)>> \o LeadingDigits(Tail(s))

RECURSIVE DecimalValue(_)
DecimalValue(ds) ==
  IF ds = <<>> THEN 0
  ELSE 10 * DecimalValue(SubSeq(ds, 1, Len(ds) - 1)) + DigitValue(ds[Len(ds)])

\* parseInt(req.params.eventId)
parseInt(s) == IF LeadingDigits(s) = <<>> THEN NaN ELSE DecimalValue(LeadingDigits(s))

\* getEvent(id): the event, or nothing
NoEvent == [id |-> Null]
getEvent(id, evs) == IF id \in DOMAIN evs THEN evs[id] ELSE NoEvent

\* `http://localhost:3000/metadata/${req.params.eventId}/${req.params.tokenId}`
tokenUrlOf(eventId, tokenId) ==
  <<"http://localhost:3000/metadata/">> \o eventId \o <<"/">> \o tokenId

buildMetadataJsonFromStore(tokenUrl, ev) ==
  [description |-> ev.description,
   external_url |-> tokenUrl,
   home_url |-> tokenUrl,
   image |-> events[1].image_url,
   image_url |-> events[1].image_url,
   name |-> ev.name,
   year |-> ev.year,
   tags |-> <<"poap", "event">>,
   attributes |->
     << [trait_type |-> "startDate", value |-> ev.start_date],
        [trait_type |-> "endDate", value |-> ev.end_date],
        [trait_type |-> "city", value |-> ev.city],
        [trait_type |-> "country", value |-> ev.country],
        [trait_type |-> "eventURL", value |-> ev.event_url] >>,
   properties |-> <<>>]
buildMetadataJson(tokenUrl, ev) ==
  [description |-> ev.description,
   external_url |-> tokenUrl,
   home_url |-> tokenUrl,
   image |-> ev.image_url,
   image_url |-> ev.image_url,
   name |-> ev.name,
   year |-> ev.year,
   tags |-> <<"poap", "event">>,
   attributes |->
     << [trait_type |-> "startDate", value |-> ev.start_date],
        [trait_type |-> "endDate", value |-> ev.end_date],
        [trait_type |-> "city", value |-> ev.city],
        [trait_type |-> "country", value |-> ev.country],
        [trait_type |-> "eventURL", value |-> ev.event_url] >>,
   properties |-> <<>>]

\* the path parameters requests carry
MetaEventIdParams == {<<"1">>, <<"2">>, <<"1", "x">>, <<"0", "2">>, <<"9">>, <<"x">>}
MetaTokenIdParams == {<<"7">>}

\* the handler: the call (canonical URL, event) and the reply are kept
GetMetadata(eventId, tokenId) ==
  /\ Len(meta) < MaxMeta
  /\ LET event == getEvent(parseInt(eventId), events)
         tokenUrl == tokenUrlOf(eventId, tokenId)
     IN meta' = Append(meta,
                  IF event = NoEvent
                  THEN [status |-> 404, url |-> tokenUrl, ev |-> NoEvent,
                        doc |-> [message |-> "Invalid Event"]]
                  ELSE [status |-> 200, url |-> tokenUrl, ev |-> event,
                        doc |-> buildMetadataJson(tokenUrl, event)])
  /\ UNCHANGED <<events, records, ledger, req, put, putReq, batch, scan>>

NextMeta ==
  \/ \E e \in MetaEventIdParams, t \in MetaTokenIdParams : GetMetadata(e, t)
  \/ \E f \in AdminFancyIds, b \in PutBodies : PutEvent(f, b, TRUE)

SpecMeta == InitAdmin /\ [][NextMeta]_vars

FailsStructure(c, evs) == c.eventId \notin DOMAIN evs
FailsActive(c, evs) == c.eventId \in DOMAIN evs /\ evs[c.eventId].signer = Null
FailsFresh(c, recs) == \E x \in recs : x.claimId = c.claimId
FailsProof(c, evs) ==
  \/ c.eventId \notin DOMAIN evs
  \/ c.proof # sign_by(evs[c.eventId].signer,
                       bindProof(c.claimId, c.eventId, c.claimer))
FailsConsent(c) == c.claimerSignature # sign_by(c.claimer, bindConsent(c.claimId))

C18_LedgerFailureSurfaced ==
  [][ \A r \in Requests :
        /\ (req[r].pc = "ledger" /\ req'[r].pc = "done") =>
             /\ req'[r].isValid /\ req'[r].succeeded = 0
             /\ req'[r].resp.status # 204
             /\ req'[r].resp.message # "Invalid Claim"
             /\ req'[r].answer = "Transient"
                  => /\ req[r].attempts = RetryBudget
                     /\ req'[r].resp.status \in {502, 503}
             /\ req'[r].answer = "Permanent"
                  => req'[r].resp.status \in {400, 422}
        /\ (req[r].pc = "ledger" /\ req'[r].pc = "ledger") => req'[r].resp = NoResp
        /\ (req[r].pc = "ledger" /\ req'[r] # req[r] /\ req'[r].answer = "Permanent")
             => req'[r].pc = "done"
        /\ (req'[r].pc = "done" /\ req'[r].resp.status = 204)
             => req'[r].succeeded = 1
    ]_vars

\* c1 failed permanently at its first attempt and was answered 422, c2 failed
\* transiently three times and was answered 503
C18_Witness ==
  /\ req[1].claim.claimId = "c1" /\ req[1].isValid
  /\ req[1].answer = "Permanent" /\ req[1].resp.status = 422
  /\ req[2].claim.claimId = "c2" /\ req[2].isValid
  /\ req[2].answer = "Transient" /\ req[2].resp.status = 503
  /\ \A k \in DOMAIN ledger : ledger[k] = 0

\* the fields a PUT /api/events/:fancyid may change
PutFields == {"signer", "signer_ip", "event_url", "image_url"}

\* C19: a privileged PUT /api/events/:fancyid for an unknown fancyid is
\* answered 404 and changes no event; for a known fancyid it is answered 204
\* and changes at most the fields signer, signer_ip, event_url, image_url of
\* the event with that fancyid; every other field, every other event and all
\* redemption records stay as they were.
C19_PutFrame ==
  [][ /\ (putReq' # NoPut /\ putReq'.privileged) =>
           IF \E e \in DOMAIN events : events[e].fancy_id = putReq'.fancyid
           THEN /\ put' = 204
                /\ \A e \in DOMAIN events :
                     IF events[e].fancy_id = putReq'.fancyid
                     THEN \A f \in (DOMAIN events[e]) \ PutFields :
                            events'[e][f] = events[e][f]
                     ELSE events'[e] = events[e]
           ELSE put' = 404 /\ events' = events
      /\ DOMAIN events' = DOMAIN events
      /\ \A e \in DOMAIN events : DOMAIN events'[e] = DOMAIN events[e]
      /\ events' # events => UNCHANGED <<records, ledger, req, batch>>
    ]_vars

\* a PUT changed event 1 and was answered 204, a later PUT for an unknown
\* fancyid was answered 404; event 2 and the record of c1 are untouched
C19_Witness ==
  /\ putReq.privileged /\ putReq.fancyid = "nosuch" /\ put = 404
  /\ events[1].signer = Null /\ events[1].event_url = "url1"
  /\ events[1].name = "Devcon" /\ events[1].fancy_id = "devcon6"
  /\ events[2] = eventRow(2)
  /\ \E x \in records : x.claimId = "c1"

\* C20: a claim request that starts while its event's signer is null, that is
\* after a PUT that set it to null was answered 204 and before a later PUT
\* sets a signer, is not authorized and never submits a mint; and every mint a
\* claim request submits was authorized against the signer the event held when
\* its verifyClaim ran, whatever a PUT did to the event since.
C20_DeactivationHolds ==
  [][ \A r \in Requests :
        /\ ( /\ ~Received(r) /\ req'[r].pc # "idle"
             /\ signerOf(req'[r].claim.eventId, events) = Null )
           => /\ ~req'[r].isValid
              /\ req'[r].seenSigner = Null
              /\ records' = records
        /\ (Received(r) /\ req[r].seenSigner = Null)
           => /\ req'[r].seenSigner = Null
              /\ req'[r].mintCalls = 0 /\ req'[r].attempts = 0
              /\ req'[r].succeeded = 0
              /\ ledger' = ledger \/ req'[r] = req[r]
        /\ req'[r].mintCalls > 0
           => /\ req'[r].seenSigner # Null
              /\ req'[r].claim.proof
                   = sign_by(req'[r].seenSigner,
                             bindProof(req'[r].claim.claimId, req'[r].claim.eventId,
                                       req'[r].claim.claimer))
        /\ Received(r) => req'[r].seenSigner = req[r].seenSigner
    ]_vars

\* the request for c2 was verified against the signer and minted; a PUT set
\* the signer to null and was answered 204; the request for c1 started after
\* it, with a valid and unredeemed claim, and was rejected without a mint
C20_Witness ==
  /\ req[1].claim.claimId = "c2"
  /\ req[1].seenSigner = SignerA /\ req[1].resp.status = 204
  /\ events[1].signer = Null /\ put = 204
  /\ req[2].claim = ValidC1
  /\ req[2].seenSigner = Null /\ req[2].reason = "EventNotActive"
  /\ req[2].pc = "done" /\ req[2].resp.status = 400 /\ req[2].mintCalls = 0
  /\ records = {[claimId |-> "c2", eventId |-> 1, redeemedAt |-> 1]}
  /\ ledger[<<1, AddrC>>] = 1 /\ ledger[<<1, AddrB>>] = 0

====
